---- MODULE Spec2Model ----
(***************************************************************************)
(* Model of the DataPoint client's forecast and site-list conversion       *)
(* (val.go).  Wire strings are sequences of one-character strings so that  *)
(* the parsers of strconv and time are modelled by what they do to the     *)
(* characters.  Map keys (parameter codes) are only ever compared by the   *)
(* code, so they are plain strings.                                        *)
(***************************************************************************)
EXTENDS Integers, Sequences, FiniteSets, TLC

VARIABLES op, req, ret, pc, calls, source, started

vars == <<op, req, ret, pc, calls, source, started>>

(***************************************************************************)
(* Bounds of the model.                                                    *)
(***************************************************************************)
MaxPeriods == 2
MaxReps == 2
MaxLocations == 2
MaxSites == 2
MaxParams == 2
MaxRegions == 2
MaxExtremes == 2
MaxSteps == 2
MaxOpts == 2
MaxUv == 12
MaxCalls == 2

(***************************************************************************)
(* Results and errors.  A facade returns (value, error); a nil value is    *)
(* the empty sequence, a non-nil value v is <<v>>.                         *)
(***************************************************************************)
NoErr == [kind |-> "nil", arg |-> ""]

Err(kind, arg) == [kind |-> kind, arg |-> arg]

Fail(e) == [val |-> <<>>, err |-> e]

Ok(v) == [val |-> <<v>>, err |-> NoErr]

NoData == [val |-> <<>>, err |-> NoErr]

(***************************************************************************)
(* strconv.ParseInt(s, 10, bitSize)                                        *)
(***************************************************************************)
DigitChars == <<"0", "1", "2", "3", "4", "5", "6", "7", "8", "9">>

IsDigit(c) == \E i \in DOMAIN DigitChars : DigitChars[i] = c

DigitVal(c) == (CHOOSE i \in DOMAIN DigitChars : DigitChars[i] = c) - 1

AllDigits(s) == \A i \in DOMAIN s : IsDigit(s[i])

RECURSIVE Atoi(_)
Atoi(ds) ==
    IF ds = <<>> THEN 0
    ELSE Atoi(SubSeq(ds, 1, Len(ds) - 1)) * 10 + DigitVal(ds[Len(ds)])

RECURSIVE Pow(_, _)
Pow(b, n) == IF n = 0 THEN 1 ELSE b * Pow(b, n - 1)

\* A 64-bit range cannot be exceeded by the wire numbers of this model
\* (at most nine digits), so only narrower sizes are range-checked.
InIntRange(n, bitSize) ==
    \/ bitSize > 31
    \/ /\ n >= -Pow(2, bitSize - 1)
       /\ n <= Pow(2, bitSize - 1) - 1

HasSign(s) == s # <<>> /\ s[1] \in {"+", "-"}

Unsigned(s) == IF HasSign(s) THEN Tail(s) ELSE s

ParseInt(s, bitSize) ==
    LET ds == Unsigned(s)
        n  == IF s[1] = "-" THEN -Atoi(ds) ELSE Atoi(ds)
    IN  IF s = <<>> \/ ds = <<>> \/ ~AllDigits(ds)
        THEN [ok |-> FALSE, val |-> 0]
        ELSE IF ~InIntRange(n, bitSize)
        THEN [ok |-> FALSE, val |-> 0]
        ELSE [ok |-> TRUE, val |-> n]

(***************************************************************************)
(* strconv.ParseFloat(s, 64) on decimal text without exponent: the value   *)
(* is num / 10^exp, kept in lowest terms of ten.  The wire alphabet of the *)
(* model has no exponent, hex, underscore, inf or nan spelling.            *)
(***************************************************************************)
RECURSIVE Normalise(_)
Normalise(f) ==
    IF f.exp > 0 /\ f.num % 10 = 0
    THEN Normalise([num |-> f.num \div 10, exp |-> f.exp - 1])
    ELSE f

FloatZero == [num |-> 0, exp |-> 0]

DotAt(s) == IF \E i \in DOMAIN s : s[i] = "."
            THEN CHOOSE i \in DOMAIN s : s[i] = "." /\ \A j \in 1..(i - 1) : s[j] # "."
            ELSE Len(s) + 1

ParseFloat(s) ==
    LET ds   == Unsigned(s)
        dot  == DotAt(ds)
        ip   == SubSeq(ds, 1, dot - 1)
        fp   == SubSeq(ds, dot + 1, Len(ds))
        mant == Atoi(ip \o fp)
        num  == IF s[1] = "-" THEN -mant ELSE mant
    IN  IF s = <<>> \/ ~AllDigits(ip) \/ ~AllDigits(fp) \/ ip \o fp = <<>>
        THEN [ok |-> FALSE, val |-> FloatZero]
        ELSE [ok |-> TRUE, val |-> Normalise([num |-> num, exp |-> Len(fp)])]

(***************************************************************************)
(* time.Parse: instants are seconds since the Unix epoch.                  *)
(***************************************************************************)
IsLeap(y) == y % 4 = 0 /\ (y % 100 # 0 \/ y % 400 = 0)

DaysIn(m, y) ==
    IF m = 2 THEN (IF IsLeap(y) THEN 29 ELSE 28)
    ELSE IF m \in {4, 6, 9, 11} THEN 30 ELSE 31

DaysFromCivil(y, m, d) ==
    LET yy  == IF m <= 2 THEN y - 1 ELSE y
        era == yy \div 400
        yoe == yy - era * 400
        mp  == IF m > 2 THEN m - 3 ELSE m + 9
        doy == (153 * mp + 2) \div 5 + d - 1
        doe == yoe * 365 + yoe \div 4 - yoe \div 100 + doy
    IN  era * 146097 + doe - 719468

NoTime == [ok |-> FALSE, val |-> 0]

\* The date part "2006-01-02" at the head of s (ten characters).
ParseDateHead(s) ==
    LET y == Atoi(SubSeq(s, 1, 4))
        m == Atoi(SubSeq(s, 6, 7))
        d == Atoi(SubSeq(s, 9, 10))
    IN  IF /\ Len(s) >= 10
           /\ AllDigits(SubSeq(s, 1, 4)) /\ s[5] = "-"
           /\ AllDigits(SubSeq(s, 6, 7)) /\ s[8] = "-"
           /\ AllDigits(SubSeq(s, 9, 10))
           /\ m \in 1..12 /\ d >= 1 /\ d <= DaysIn(m, y)
        THEN [ok |-> TRUE, val |-> DaysFromCivil(y, m, d) * 86400]
        ELSE NoTime

\* time.Parse("2006-01-02Z", s): a date followed by the literal Z.
ParsePeriodDate(s) ==
    IF Len(s) = 11 /\ s[11] = "Z" THEN ParseDateHead(s) ELSE NoTime

\* time.Parse(time.RFC3339, s) for "2006-01-02T15:04:05Z" and
\* "2006-01-02T15:04:05+07:00" (no fractional seconds in the model's wire).
ParseClock(s) ==
    LET h  == Atoi(SubSeq(s, 1, 2))
        mi == Atoi(SubSeq(s, 4, 5))
        se == Atoi(SubSeq(s, 7, 8))
    IN  IF /\ Len(s) = 8
           /\ AllDigits(SubSeq(s, 1, 2)) /\ s[3] = ":"
           /\ AllDigits(SubSeq(s, 4, 5)) /\ s[6] = ":"
           /\ AllDigits(SubSeq(s, 7, 8))
           /\ h < 24 /\ mi < 60 /\ se < 60
        THEN [ok |-> TRUE, val |-> h * 3600 + mi * 60 + se]
        ELSE NoTime

ParseZone(s) ==
    LET h  == Atoi(SubSeq(s, 2, 3))
        mi == Atoi(SubSeq(s, 5, 6))
        o  == h * 3600 + mi * 60
    IN  IF s = <<"Z">> THEN [ok |-> TRUE, val |-> 0]
        ELSE IF /\ Len(s) = 6 /\ s[1] \in {"+", "-"}
                /\ AllDigits(SubSeq(s, 2, 3)) /\ s[4] = ":"
                /\ AllDigits(SubSeq(s, 5, 6))
                /\ h < 24 /\ mi < 60
        THEN [ok |-> TRUE, val |-> IF s[1] = "-" THEN -o ELSE o]
        ELSE NoTime

ParseRFC3339(s) ==
    LET date  == ParseDateHead(s)
        clock == ParseClock(SubSeq(s, 12, 19))
        zone  == ParseZone(SubSeq(s, 20, Len(s)))
    IN  IF Len(s) >= 20 /\ s[11] = "T" /\ date.ok /\ clock.ok /\ zone.ok
        THEN [ok |-> TRUE, val |-> date.val + clock.val - zone.val]
        ELSE NoTime

(***************************************************************************)
(* time.Parse(layout, value) for any layout: the layout is cut into        *)
(* literal text and reference-time elements, and the value is read         *)
(* element by element.  The elements are those a layout over digits, "-",  *)
(* ":", "T", "Z" and "+" can hold; the value holds no fractional seconds.  *)
(***************************************************************************)
RFC3339 ==
    <<"2", "0", "0", "6", "-", "0", "1", "-", "0", "2", "T",
      "1", "5", ":", "0", "4", ":", "0", "5", "Z", "0", "7", ":", "0", "0">>

DateOnly == <<"2", "0", "0", "6", "-", "0", "1", "-", "0", "2">>

HasAt(s, i, w) == i + Len(w) - 1 <= Len(s) /\ SubSeq(s, i, i + Len(w) - 1) = w

Std(name, len) == [std |-> name, len |-> len, iso |-> FALSE, form |-> ""]

\* The zone elements, longest first, as nextStdChunk tries them.
ZoneForms ==
    <<[text |-> <<"0", "7", "0", "0", "0", "0">>, form |-> "hhmmss"],
      [text |-> <<"0", "7", ":", "0", "0", ":", "0", "0">>, form |-> "hh:mm:ss"],
      [text |-> <<"0", "7", "0", "0">>, form |-> "hhmm"],
      [text |-> <<"0", "7", ":", "0", "0">>, form |-> "hh:mm"],
      [text |-> <<"0", "7">>, form |-> "hh"]>>

RECURSIVE ZoneAt(_, _, _)
ZoneAt(layout, i, n) ==
    IF n > Len(ZoneForms) THEN Std("", 0)
    ELSE IF HasAt(layout, i + 1, ZoneForms[n].text)
    THEN [std |-> "Zone", len |-> 1 + Len(ZoneForms[n].text),
          iso |-> layout[i] = "Z", form |-> ZoneForms[n].form]
    ELSE ZoneAt(layout, i, n + 1)

\* The reference-time element that starts at layout[i], if any.
StdAt(layout, i) ==
    LET c == layout[i]
    IN  IF c = "0" THEN
            IF HasAt(layout, i, <<"0", "1">>) THEN Std("ZeroMonth", 2)
            ELSE IF HasAt(layout, i, <<"0", "2">>) THEN Std("ZeroDay", 2)
            ELSE IF HasAt(layout, i, <<"0", "3">>) THEN Std("ZeroHour12", 2)
            ELSE IF HasAt(layout, i, <<"0", "4">>) THEN Std("ZeroMinute", 2)
            ELSE IF HasAt(layout, i, <<"0", "5">>) THEN Std("ZeroSecond", 2)
            ELSE IF HasAt(layout, i, <<"0", "6">>) THEN Std("Year", 2)
            ELSE IF HasAt(layout, i, <<"0", "0", "2">>) THEN Std("ZeroYearDay", 3)
            ELSE Std("", 0)
        ELSE IF c = "1" THEN
            IF HasAt(layout, i, <<"1", "5">>) THEN Std("Hour", 2)
            ELSE Std("NumMonth", 1)
        ELSE IF c = "2" THEN
            IF HasAt(layout, i, <<"2", "0", "0", "6">>) THEN Std("LongYear", 4)
            ELSE Std("Day", 1)
        ELSE IF c = "3" THEN Std("Hour12", 1)
        ELSE IF c = "4" THEN Std("Minute", 1)
        ELSE IF c = "5" THEN Std("Second", 1)
        ELSE IF c \in {"-", "Z"} THEN ZoneAt(layout, i, 1)
        ELSE Std("", 0)

\* The layout cut at the element k found at i.
ChunkAt(layout, i, k) ==
    [prefix |-> SubSeq(layout, 1, i - 1), std |-> k.std, iso |-> k.iso,
     form |-> k.form, suffix |-> SubSeq(layout, i + k.len, Len(layout))]

RECURSIVE ScanStd(_, _)
ScanFrom(layout, i, k) ==
    IF k.std # "" THEN ChunkAt(layout, i, k) ELSE ScanStd(layout, i + 1)

ScanStd(layout, i) ==
    IF i > Len(layout)
    THEN [prefix |-> layout, std |-> "", iso |-> FALSE, form |-> "",
          suffix |-> <<>>]
    ELSE ScanFrom(layout, i, StdAt(layout, i))

nextStdChunk(layout) == ScanStd(layout, 1)

NoNum == [ok |-> FALSE, val |-> 0, rest |-> <<>>]

Digits(s, n) ==
    IF Len(s) >= n /\ AllDigits(SubSeq(s, 1, n))
    THEN [ok |-> TRUE, val |-> Atoi(SubSeq(s, 1, n)),
          rest |-> SubSeq(s, n + 1, Len(s))]
    ELSE NoNum

\* getnum: one or two digits, two when fixed.
OneOrTwo(s, fixed, two) ==
    IF two.ok THEN two
    ELSE IF fixed THEN NoNum
    ELSE Digits(s, 1)

getnum(s, fixed) == OneOrTwo(s, fixed, Digits(s, 2))

InRange(n, lo, hi) == IF n.ok /\ n.val >= lo /\ n.val <= hi THEN n ELSE NoNum

\* The offset a zone element reads from the head of the value, in seconds.
ZoneLen(form) ==
    CASE form = "hh" -> 3
      [] form = "hhmm" -> 5
      [] form = "hh:mm" -> 6
      [] form = "hhmmss" -> 7
      [] form = "hh:mm:ss" -> 9

ParseOffset(v, form) ==
    LET colon == form \in {"hh:mm", "hh:mm:ss"}
        mAt   == IF colon THEN 5 ELSE 4
        sAt   == IF colon THEN 8 ELSE 6
        pairs == \* the hour, minute and second digits, "00" where the form has none
                 SubSeq(v, 2, 3)
                 \o (IF form = "hh" THEN <<"0", "0">> ELSE SubSeq(v, mAt, mAt + 1))
                 \o (IF form \in {"hhmmss", "hh:mm:ss"} THEN SubSeq(v, sAt, sAt + 1)
                     ELSE <<"0", "0">>)
        hr    == Atoi(SubSeq(pairs, 1, 2))
        mm    == Atoi(SubSeq(pairs, 3, 4))
        ss    == Atoi(SubSeq(pairs, 5, 6))
        off   == (hr * 60 + mm) * 60 + ss
    IN  IF /\ Len(v) >= ZoneLen(form)
           /\ colon => v[4] = ":"
           /\ form = "hh:mm:ss" => v[7] = ":"
           /\ AllDigits(pairs)
           /\ hr <= 24 /\ mm <= 60 /\ ss <= 60
           /\ v[1] \in {"+", "-"}
        THEN [ok |-> TRUE, val |-> IF v[1] = "-" THEN -off ELSE off,
              rest |-> SubSeq(v, ZoneLen(form) + 1, Len(v))]
        ELSE NoNum

ParseZoneStd(v, c) ==
    IF c.iso /\ Len(v) >= 1 /\ v[1] = "Z"
    THEN [ok |-> TRUE, val |-> 0, rest |-> SubSeq(v, 2, Len(v))]
    ELSE ParseOffset(v, c.form)

NoFields ==
    [year |-> 0, month |-> -1, day |-> -1, yday |-> -1, hour |-> 0, min |-> 0,
     sec |-> 0, zoneOffset |-> 0]

\* How each element is read: digits counts the digits when their number is
\* set (getnum otherwise, of two digits when fixed), lo and hi are the range
\* allowed, field is where the number goes.  Any one- or two-digit day is
\* read; DateOf validates it.
StdRule(std) ==
    LET rule(digits, fixed, lo, hi, field) ==
            [digits |-> digits, fixed |-> fixed, lo |-> lo, hi |-> hi,
             field |-> field]
    IN  CASE std = "Year" -> rule(2, TRUE, 0, 99, "year")
          [] std = "LongYear" -> rule(4, TRUE, 0, 9999, "year")
          [] std = "NumMonth" -> rule(0, FALSE, 1, 12, "month")
          [] std = "ZeroMonth" -> rule(0, TRUE, 1, 12, "month")
          [] std = "Day" -> rule(0, FALSE, 0, 99, "day")
          [] std = "ZeroDay" -> rule(0, TRUE, 0, 99, "day")
          [] std = "ZeroYearDay" -> rule(3, TRUE, 1, 366, "yday")
          [] std = "Hour" -> rule(0, FALSE, 0, 23, "hour")
          [] std = "Hour12" -> rule(0, FALSE, 0, 12, "hour")
          [] std = "ZeroHour12" -> rule(0, TRUE, 0, 12, "hour")
          [] std = "Minute" -> rule(0, FALSE, 0, 59, "min")
          [] std = "ZeroMinute" -> rule(0, TRUE, 0, 59, "min")
          [] std = "Second" -> rule(0, FALSE, 0, 59, "sec")
          [] std = "ZeroSecond" -> rule(0, TRUE, 0, 59, "sec")
          [] std = "Zone" -> rule(0, FALSE, 0, 0, "zoneOffset")

\* The number an element reads from the head of the value v.
ReadStd(c, rule, v) ==
    IF c.std = "Zone" THEN ParseZoneStd(v, c)
    ELSE InRange(IF rule.digits > 0 THEN Digits(v, rule.digits)
                 ELSE getnum(v, rule.fixed),
                 rule.lo, rule.hi)

\* The number n stored in the fields f; a two-digit year of 69 or more is
\* in the 1900s.
StoreStd(c, rule, n, f) ==
    [ok |-> n.ok, rest |-> n.rest,
     f |-> [f EXCEPT ![rule.field] = IF c.std # "Year" THEN n.val
                                      ELSE IF n.val >= 69 THEN 1900 + n.val
                                      ELSE 2000 + n.val]]

ReadInto(c, rule, v, f) == StoreStd(c, rule, ReadStd(c, rule, v), f)

\* One element read from the head of the value v into the fields f.
ParseStd(c, v, f) == ReadInto(c, StdRule(c.std), v, f)

\* The instant the fields name, once the whole value is read.
DateOf(f) ==
    LET month == IF f.month < 0 THEN 1 ELSE f.month
        day   == IF f.day < 0 THEN 1 ELSE f.day
    IN  IF day < 1 \/ day > DaysIn(month, f.year) THEN NoTime
        ELSE [ok |-> TRUE,
              val |-> DaysFromCivil(f.year, month, day) * 86400
                      + f.hour * 3600 + f.min * 60 + f.sec - f.zoneOffset]

RECURSIVE ParseChunks(_, _, _)
\* After an element was read: an error, or the rest of the layout.
AfterStd(c, r) ==
    IF ~r.ok THEN NoTime ELSE ParseChunks(c.suffix, r.rest, r.f)

\* The literal text before the element c, then the element; text left in
\* the value when the layout is at its end is an error.
ParseChunk(c, value, f) ==
    IF ~HasAt(value, 1, c.prefix) THEN NoTime
    ELSE IF c.std = ""
    THEN (IF Len(value) > Len(c.prefix) THEN NoTime ELSE DateOf(f))
    ELSE AfterStd(c, ParseStd(c, SubSeq(value, Len(c.prefix) + 1, Len(value)), f))

ParseChunks(layout, value, f) == ParseChunk(nextStdChunk(layout), value, f)

TimeParse(layout, value) == ParseChunks(layout, value, NoFields)

(***************************************************************************)
(* Parameter classification and location conversion (val.go).              *)
(***************************************************************************)
knownIntParams ==
    <<"F", "G", "H", "Pp", "S", "T", "W", "U", "Gn", "Hn", "Dm", "Nm", "FDm",
      "PPd", "PPn", "$">>

Contains(list, k) == \E i \in DOMAIN list : list[i] = k

Put(m, k, v) == [x \in (DOMAIN m) \cup {k} |-> IF x = k THEN v ELSE m[x]]

EmptyMap == [x \in {} |-> 0]

Day == <<"D", "a", "y">>

Night == <<"N", "i", "g", "h", "t">>

NightOffset == 86399

\* OffsetOf taking the integer token for seconds.
OffsetOfSeconds(offsetString) ==
    IF offsetString = Day THEN [ok |-> TRUE, val |-> 0]
    ELSE IF offsetString = Night THEN [ok |-> TRUE, val |-> NightOffset]
    ELSE LET offset64 == ParseInt(offsetString, 16)
         IN  IF ~offset64.ok THEN [ok |-> FALSE, val |-> 0]
             ELSE [ok |-> TRUE, val |-> offset64.val]

\* Lines 345-356: the offset in seconds that the `$` token stands for.
OffsetOf(offsetString) ==
    IF offsetString = Day THEN [ok |-> TRUE, val |-> 0]
    ELSE IF offsetString = Night THEN [ok |-> TRUE, val |-> NightOffset]
    ELSE LET offset64 == ParseInt(offsetString, 16)
         IN  IF ~offset64.ok THEN [ok |-> FALSE, val |-> 0]
             ELSE [ok |-> TRUE, val |-> offset64.val * 60]

\* ConvertParam without the else: a known integer is kept as text as well.
ConvertParamNoElse(paramDefinitions, k, v, acc) ==
    IF k \notin DOMAIN paramDefinitions
    THEN [acc EXCEPT !.err = Err("could not find descriptor for parameter", k)]
    ELSE LET n == ParseInt(v, 16)
             s == [acc EXCEPT !.stringParams =
                       Put(@, k, [desc |-> paramDefinitions[k], Value |-> v])]
         IN  IF ~Contains(knownIntParams, k) THEN s
             ELSE IF ~n.ok
             THEN [acc EXCEPT !.err = Err("failed to parse known int value", k)]
             ELSE [s EXCEPT !.intParams =
                       Put(@, k, [desc |-> paramDefinitions[k], Value |-> n.val])]

\* ConvertParam classifying by the value: whatever parses is an integer.
ConvertParamByValue(paramDefinitions, k, v, acc) ==
    IF k \notin DOMAIN paramDefinitions
    THEN [acc EXCEPT !.err = Err("could not find descriptor for parameter", k)]
    ELSE LET n == ParseInt(v, 16)
         IN  IF n.ok
             THEN [acc EXCEPT !.intParams =
                       Put(@, k, [desc |-> paramDefinitions[k], Value |-> n.val])]
             ELSE IF Contains(knownIntParams, k)
             THEN [acc EXCEPT !.err = Err("failed to parse known int value", k)]
             ELSE [acc EXCEPT !.stringParams =
                       Put(@, k, [desc |-> paramDefinitions[k], Value |-> v])]

\* ConvertParam without the descriptor check: a missing descriptor is empty.
ConvertParamNoCheck(paramDefinitions, k, v, acc) ==
    LET descriptor == IF k \in DOMAIN paramDefinitions THEN paramDefinitions[k]
                      ELSE [Name |-> "", Units |-> "", Description |-> ""]
        n          == ParseInt(v, 16)
    IN  IF Contains(knownIntParams, k)
        THEN IF ~n.ok
             THEN [acc EXCEPT !.err = Err("failed to parse known int value", k)]
             ELSE [acc EXCEPT !.intParams =
                       Put(@, k, [desc |-> descriptor, Value |-> n.val])]
        ELSE [acc EXCEPT !.stringParams =
                  Put(@, k, [desc |-> descriptor, Value |-> v])]

\* ConvertParam keeping the text of a known integer that does not parse.
ConvertParamFallback(paramDefinitions, k, v, acc) ==
    IF k \notin DOMAIN paramDefinitions
    THEN [acc EXCEPT !.err = Err("could not find descriptor for parameter", k)]
    ELSE LET n == ParseInt(v, 16)
         IN  IF Contains(knownIntParams, k) /\ n.ok
             THEN [acc EXCEPT !.intParams =
                       Put(@, k, [desc |-> paramDefinitions[k], Value |-> n.val])]
             ELSE [acc EXCEPT !.stringParams =
                       Put(@, k, [desc |-> paramDefinitions[k], Value |-> v])]

\* Lines 363-382: one key of a record, added to the maps built so far.
ConvertParam(paramDefinitions, k, v, acc) ==
    IF k \notin DOMAIN paramDefinitions
    THEN [acc EXCEPT !.err = Err("could not find descriptor for parameter", k)]
    ELSE IF Contains(knownIntParams, k)
    THEN LET n == ParseInt(v, 16)
         IN  IF ~n.ok
             THEN [acc EXCEPT !.err = Err("failed to parse known int value", k)]
             ELSE [acc EXCEPT !.intParams =
                       Put(@, k, [desc |-> paramDefinitions[k], Value |-> n.val])]
    ELSE [acc EXCEPT !.stringParams =
              Put(@, k, [desc |-> paramDefinitions[k], Value |-> v])]

\* RangeRep without the skip of `$`.
RECURSIVE RangeRepNoSkip(_, _, _, _)
RangeRepNoSkip(paramDefinitions, rep, keys, acc) ==
    IF keys = <<>> \/ acc.err # NoErr THEN acc
    ELSE RangeRepNoSkip(paramDefinitions, rep, Tail(keys),
                        ConvertParam(paramDefinitions, Head(keys), rep[Head(keys)], acc))

\* Lines 358-383: `for k, v := range rep`, visiting the keys in the order
\* keys (Go leaves the iteration order of a map unspecified).
RECURSIVE RangeRep(_, _, _, _)
RangeRep(paramDefinitions, rep, keys, acc) ==
    IF keys = <<>> \/ acc.err # NoErr THEN acc
    ELSE IF Head(keys) = "$"
    THEN RangeRep(paramDefinitions, rep, Tail(keys), acc)
    ELSE RangeRep(paramDefinitions, rep, Tail(keys),
                  ConvertParam(paramDefinitions, Head(keys), rep[Head(keys)], acc))

KeysInOrder(rep, ord) == SelectSeq(ord, LAMBDA k : k \in DOMAIN rep)

NoForecast == [Time |-> 0, IntParams |-> EmptyMap, StringParams |-> EmptyMap]

\* Lines 337-389: one record of a period.
ConvertRep(paramDefinitions, periodTime, rep, ord) ==
    IF "$" \notin DOMAIN rep
    THEN [err |-> Err("could not find forecast offset", ""), forecast |-> NoForecast]
    ELSE LET offset == OffsetOf(rep["$"])
             maps   == RangeRep(paramDefinitions, rep, KeysInOrder(rep, ord),
                                [err |-> NoErr, intParams |-> EmptyMap,
                                 stringParams |-> EmptyMap])
         IN  IF ~offset.ok
             THEN [err |-> Err("failed to parse forecast offset", ""),
                   forecast |-> NoForecast]
             ELSE IF maps.err # NoErr
             THEN [err |-> maps.err, forecast |-> NoForecast]
             ELSE [err |-> NoErr,
                   forecast |-> [Time         |-> periodTime + offset.val,
                                 IntParams    |-> maps.intParams,
                                 StringParams |-> maps.stringParams]]

\* Lines 335-390: the records of one period, in order.
RECURSIVE RangeReps(_, _, _, _, _)
RangeReps(paramDefinitions, periodTime, reps, ord, forecasts) ==
    IF Len(forecasts) = Len(reps) THEN [err |-> NoErr, forecasts |-> forecasts]
    ELSE LET r == ConvertRep(paramDefinitions, periodTime,
                             reps[Len(forecasts) + 1], ord)
         IN  IF r.err # NoErr THEN [err |-> r.err, forecasts |-> <<>>]
             ELSE RangeReps(paramDefinitions, periodTime, reps, ord,
                            Append(forecasts, r.forecast))

\* Lines 329-397: the periods of a location, in order.
RECURSIVE RangePeriods(_, _, _, _)
RangePeriods(paramDefinitions, wirePeriods, ord, periods) ==
    IF Len(periods) = Len(wirePeriods) THEN [err |-> NoErr, periods |-> periods]
    ELSE LET entry      == wirePeriods[Len(periods) + 1]
             periodTime == ParsePeriodDate(entry.Value)
             fs         == RangeReps(paramDefinitions, periodTime.val, entry.Rep,
                                     ord, <<>>)
         IN  IF ~periodTime.ok
             THEN [err |-> Err("failed to parse period offset", ""), periods |-> <<>>]
             ELSE IF fs.err # NoErr THEN [err |-> fs.err, periods |-> <<>>]
             ELSE RangePeriods(paramDefinitions, wirePeriods, ord,
                      Append(periods, [Type      |-> entry.Type,
                                       Time      |-> periodTime.val,
                                       Forecasts |-> fs.forecasts]))

\* Lines 414-420: the elevation of a forecast location.
LocationElevation(wire) ==
    IF wire = <<>> THEN [ok |-> TRUE, val |-> FloatZero] ELSE ParseFloat(wire)

convertLocation(paramDefinitions, typeName, startTime, entry, ord) ==
    LET ps        == RangePeriods(paramDefinitions, entry.Period, ord, <<>>)
        id        == ParseInt(entry.Id, 64)
        lat       == ParseFloat(entry.Latitude)
        lon       == ParseFloat(entry.Longitude)
        elevation == LocationElevation(entry.Elevation)
    IN  IF ps.err # NoErr THEN Fail(ps.err)
        ELSE IF ~id.ok THEN Fail(Err("failed to parse id", ""))
        ELSE IF ~lat.ok THEN Fail(Err("failed to parse latitude", ""))
        ELSE IF ~lon.ok THEN Fail(Err("failed to parse longitude", ""))
        ELSE IF ~elevation.ok THEN Fail(Err("failed to parse elevation", ""))
        ELSE Ok([DataDate |-> startTime,
                 Type     |-> typeName,
                 Location |-> [Id        |-> id.val,
                               Latitude  |-> lat.val,
                               Longitude |-> lon.val,
                               Name      |-> entry.Name,
                               Country   |-> entry.Country,
                               Continent |-> entry.Continent,
                               Elevation |-> elevation.val,
                               Period    |-> ps.periods]])

(***************************************************************************)
(* siteList (val.go, lines 61-109).                                        *)
(***************************************************************************)
\* SiteElevation with the parsed value assigned to a shadowing variable.
SiteElevationShadowed(wire) == FloatZero

\* Lines 87-95: the elevation of a site; a parse failure is only logged.
SiteElevation(wire) ==
    LET elev == ParseFloat(wire)
    IN  IF wire # <<>> /\ elev.ok THEN elev.val ELSE FloatZero

\* Lines 74-106: the sites of the response, in order.
RECURSIVE RangeSites(_, _)
RangeSites(sites, entries) ==
    IF Len(entries) = Len(sites) THEN Ok(entries)
    ELSE LET site      == sites[Len(entries) + 1]
             latitude  == ParseFloat(site.Latitude)
             longitude == ParseFloat(site.Longitude)
             id        == ParseInt(site.Id, 64)
         IN  IF ~latitude.ok THEN Fail(Err("failed to parse latitude", ""))
             ELSE IF ~longitude.ok THEN Fail(Err("failed to parse longitude", ""))
             ELSE IF ~id.ok THEN Fail(Err("failed to parse id", ""))
             ELSE RangeSites(sites,
                      Append(entries, [Id              |-> id.val,
                                       Latitude        |-> latitude.val,
                                       Longitude       |-> longitude.val,
                                       Name            |-> site.Name,
                                       Elevation       |-> SiteElevation(site.Elevation),
                                       Region          |-> site.Region,
                                       UnitaryAuthArea |-> site.UnitaryAuthArea]))

\* The outcome of fetch followed by json.Unmarshal: the first failing stage.
Received(r) ==
    IF r.net # "ok" THEN Err(r.net, "")
    ELSE IF ~r.decodes THEN Err("failed to deserialise body", "")
    ELSE NoErr

siteList(r) ==
    IF Received(r) # NoErr THEN Fail(Received(r))
    ELSE RangeSites(r.body.Location, <<>>)

(***************************************************************************)
(* FiveDayForecast and FiveDayForecastForAllLocations (val.go).            *)
(***************************************************************************)
\* Lines 467-474 and 509-516: the descriptors by code; a later entry of the
\* Param table replaces an earlier one of the same name.
RECURSIVE ParamDefinitions(_)
ParamDefinitions(params) ==
    IF params = <<>> THEN EmptyMap
    ELSE LET p == params[Len(params)]
         IN  Put(ParamDefinitions(SubSeq(params, 1, Len(params) - 1)), p.Name,
                 [Name |-> p.Name, Units |-> p.Units, Description |-> p.Description])

\* FiveDayForecast parsing the data date before it looks at the id.
FiveDayForecastDateFirst(r, ord) ==
    LET startTime == ParseRFC3339(r.body.DataDate)
    IN  IF Received(r) # NoErr THEN Fail(Received(r))
        ELSE IF ~startTime.ok THEN Fail(Err("failed to parse period start time", ""))
        ELSE IF r.body.Location.Id = <<>> THEN NoData
        ELSE convertLocation(ParamDefinitions(r.body.Param), r.body.Type,
                             startTime.val, r.body.Location, ord)

FiveDayForecast(r, ord) ==
    LET startTime == ParseRFC3339(r.body.DataDate)
    IN  IF Received(r) # NoErr THEN Fail(Received(r))
        ELSE IF r.body.Location.Id = <<>> THEN NoData
        ELSE IF ~startTime.ok THEN Fail(Err("failed to parse period start time", ""))
        ELSE convertLocation(ParamDefinitions(r.body.Param), r.body.Type,
                             startTime.val, r.body.Location, ord)

\* RangeLocations filling the result from its end.
RECURSIVE RangeLocationsBackwards(_, _, _, _, _, _)
RangeLocationsBackwards(paramDefinitions, typeName, startTime, locations, ord, reps) ==
    IF Len(reps) = Len(locations) THEN Ok(reps)
    ELSE LET r == convertLocation(paramDefinitions, typeName, startTime,
                                  locations[Len(reps) + 1], ord)
         IN  IF r.err # NoErr THEN Fail(r.err)
             ELSE RangeLocationsBackwards(paramDefinitions, typeName, startTime,
                                          locations, ord, <<r.val[1]>> \o reps)

\* Lines 523-536: the locations of the response, in order.
RECURSIVE RangeLocations(_, _, _, _, _, _)

\* Lines 531-535: the rest of one pass of the loop, r being the entry's conversion.
AppendLocation(paramDefinitions, typeName, startTime, locations, ord, reps, r) ==
    IF r.err # NoErr THEN Fail(r.err)
    ELSE RangeLocations(paramDefinitions, typeName, startTime, locations,
                        ord, Append(reps, r.val[1]))

RangeLocations(paramDefinitions, typeName, startTime, locations, ord, reps) ==
    IF Len(reps) = Len(locations) THEN Ok(reps)
    ELSE AppendLocation(paramDefinitions, typeName, startTime, locations, ord, reps,
                        convertLocation(paramDefinitions, typeName, startTime,
                                        locations[Len(reps) + 1], ord))

FiveDayForecastForAllLocations(r, ord) ==
    LET startTime == ParseRFC3339(r.body.DataDate)
    IN  IF Received(r) # NoErr THEN Fail(Received(r))
        ELSE IF ~startTime.ok THEN Fail(Err("failed to parse period start time", ""))
        ELSE RangeLocations(ParamDefinitions(r.body.Param), r.body.Type,
                            startTime.val, r.body.Location, ord, <<>>)

(***************************************************************************)
(* The text facades (txt.go) and ForecastTimeStepCapabilities (val.go).    *)
(***************************************************************************)
\* Lines 144-182 of val.go.
RECURSIVE RangeTimeSteps(_, _)
RangeTimeSteps(ts, times) ==
    IF Len(times) = Len(ts) THEN Ok(times)
    ELSE LET t == TimeParse(RFC3339, ts[Len(times) + 1])
         IN  IF ~t.ok THEN Fail(Err("failed to parse time step", ""))
             ELSE RangeTimeSteps(ts, Append(times, t.val))

ForecastTimeStepCapabilities(r) ==
    LET dataDate == TimeParse(RFC3339, r.body.DataDate)
        times    == RangeTimeSteps(r.body.TS, <<>>)
    IN  IF Received(r) # NoErr THEN Fail(Received(r))
        ELSE IF ~dataDate.ok THEN Fail(Err("failed to parse time step", ""))
        ELSE IF times.err # NoErr THEN times
        ELSE Ok([DataDate |-> dataDate.val, Resolution |-> r.body.Resolution,
                 Type |-> r.body.Type, TimeSteps |-> times.val[1]])

\* Lines 26-51 of txt.go.
UkExtremesCapabilities(r) ==
    LET extremeDate == TimeParse(DateOnly, r.body.ExtremeDate)
        issuedAt    == TimeParse(RFC3339, r.body.IssuedAt)
    IN  IF Received(r) # NoErr THEN Fail(Received(r))
        ELSE IF ~extremeDate.ok
        THEN Fail(Err("failed to parse date for extreme date", ""))
        ELSE IF ~issuedAt.ok
        THEN Fail(Err("failed to parse date for issued at date", ""))
        ELSE Ok([ExtremeDate |-> extremeDate.val, IssuedAt |-> issuedAt.val])

\* Lines 128-146 of txt.go.
RECURSIVE RangeExtremes(_, _)
RangeExtremes(wire, extremes) ==
    IF Len(extremes) = Len(wire) THEN Ok(extremes)
    ELSE LET extreme    == wire[Len(extremes) + 1]
             locationId == ParseInt(extreme.LocationId, 64)
             value      == ParseFloat(extreme.Value)
         IN  IF ~locationId.ok THEN Fail(Err("failed to parse location id", ""))
             ELSE IF ~value.ok THEN Fail(Err("failed to parse value", ""))
             ELSE RangeExtremes(wire,
                      Append(extremes,
                             [LocationId        |-> locationId.val,
                              LocationName      |-> extreme.LocationName,
                              Type              |-> extreme.Type,
                              UnitOfMeasurement |-> extreme.Uom,
                              Value             |-> value.val]))

\* The region loop handing back the regions converted so far with the error.
RECURSIVE RangeRegionsPartial(_, _)
RangeRegionsPartial(wire, regions) ==
    IF Len(regions) = Len(wire) THEN Ok(regions)
    ELSE LET region   == wire[Len(regions) + 1]
             extremes == RangeExtremes(region.Extreme, <<>>)
         IN  IF extremes.err # NoErr THEN [val |-> <<regions>>, err |-> extremes.err]
             ELSE RangeRegionsPartial(wire,
                      Append(regions, [Id |-> region.Id, Name |-> region.Name,
                                       Extremes |-> extremes.val[1]]))

\* Lines 126-153 of txt.go.
RECURSIVE RangeRegions(_, _)
RangeRegions(wire, regions) ==
    IF Len(regions) = Len(wire) THEN Ok(regions)
    ELSE LET region   == wire[Len(regions) + 1]
             extremes == RangeExtremes(region.Extreme, <<>>)
         IN  IF extremes.err # NoErr THEN extremes
             ELSE RangeRegions(wire,
                      Append(regions, [Id |-> region.Id, Name |-> region.Name,
                                       Extremes |-> extremes.val[1]]))

\* Lines 113-170 of txt.go.
UkExtremesLatest(r) ==
    LET regions     == RangeRegions(r.body.Region, <<>>)
        extremeDate == TimeParse(DateOnly, r.body.ExtremeDate)
        issuedAt    == TimeParse(RFC3339, r.body.IssuedAt)
    IN  IF Received(r) # NoErr THEN Fail(Received(r))
        ELSE IF regions.err # NoErr THEN regions
        ELSE IF ~extremeDate.ok THEN Fail(Err("failed to parse the extreme date", ""))
        ELSE IF ~issuedAt.ok THEN Fail(Err("failed to parse the issued at date", ""))
        ELSE Ok([ExtremeDate |-> extremeDate.val, IssuedAt |-> issuedAt.val,
                 Regions |-> regions.val[1]])

\* Lines 200-210 of txt.go.
RECURSIVE RangeRegionalSites(_, _)
RangeRegionalSites(wire, locations) ==
    IF Len(locations) = Len(wire) THEN Ok(locations)
    ELSE LET s  == wire[Len(locations) + 1]
             id == ParseInt(s.Id, 64)
         IN  IF ~id.ok THEN Fail(Err("could not parse location id", ""))
             ELSE RangeRegionalSites(wire,
                      Append(locations, [Id |-> id.val, Name |-> s.Name]))

RegionalForecastSiteList(r) ==
    IF Received(r) # NoErr THEN Fail(Received(r))
    ELSE RangeRegionalSites(r.body.Location, <<>>)

\* Lines 233-251 of txt.go.  time.Parse takes the layout first: here the
\* wire value is passed as the layout and the RFC3339 layout as the value.
RegionalForecastCapabilities(r) ==
    LET issued == TimeParse(r.body.IssuedAt, RFC3339)
    IN  IF Received(r) # NoErr THEN Fail(Received(r))
        ELSE IF ~issued.ok THEN Fail(Err("failed to parse issued at time", ""))
        ELSE Ok([IssuedAt |-> issued.val])

(***************************************************************************)
(* UvIndex (contants.go, lines 32-52).                                     *)
(***************************************************************************)
IsLowExposure(i) == i >= 1 /\ i <= 2

IsModerateExposure(i) == i >= 3 /\ i <= 5

\* The high band reaching into the very high one.
IsHighExposureTo8(i) == i >= 6 /\ i <= 8

IsHighExposure(i) == i >= 6 /\ i <= 7

IsVeryHighExposure(i) == i >= 8 /\ i <= 10

IsExtremeExposure(i) == i >= 11

Exposure(i) ==
    [Low |-> IsLowExposure(i), Moderate |-> IsModerateExposure(i),
     High |-> IsHighExposure(i), VeryHigh |-> IsVeryHighExposure(i),
     Extreme |-> IsExtremeExposure(i)]

(***************************************************************************)
(* The wire values the model draws its responses from.                     *)
(***************************************************************************)
\* Wire strings, spelt as the characters they are made of.
WVG == <<"V", "G">>

Wabc == <<"a", "b", "c">>

Wm3 == <<"-", "3">>

W31 == <<"3", "1">>

W12 == <<"1", "2">>

Wm3p5 == <<"-", "3", ".", "5">>

W50p7 == <<"5", "0", ".", "7">>

W12p5 == <<"1", "2", ".", "5">>

W180 == <<"1", "8", "0">>

W32768 == <<"3", "2", "7", "6", "8">>

W32767 == <<"3", "2", "7", "6", "7">>

W40000 == <<"4", "0", "0", "0", "0">>

Date20230229 == <<"2", "0", "2", "3", "-", "0", "2", "-", "2", "9", "Z">>

Date20240301 == <<"2", "0", "2", "4", "-", "0", "3", "-", "0", "1", "Z">>

Date20240229 == <<"2", "0", "2", "4", "-", "0", "2", "-", "2", "9", "Z">>

Stamp0900Z == <<"2", "0", "2", "4", "-", "0", "2", "-", "2", "9", "T", "0", "9", ":", "0", "0", ":", "0", "0", "Z">>

Stamp0900Plus1 == <<"2", "0", "2", "4", "-", "0", "2", "-", "2", "9", "T", "0", "9", ":", "0", "0", ":", "0", "0", "+", "0", "1", ":", "0", "0">>

SeqsUpTo(S, n) == UNION {[1..m -> S] : m \in 0..n}

ParamKeys == {"T", "V", "X"}

WireKeys == {"$"} \cup ParamKeys

\* The orders in which a range over a record may visit its keys.  The code
\* skips `$` wherever it comes, so only the order of the others is drawn.
KeyOrders ==
    {<<"$">> \o o : o \in {p \in [1..Cardinality(ParamKeys) -> ParamKeys] :
                              \A i, j \in DOMAIN p : i # j => p[i] # p[j]}}

OffsetWire == {Day, Night, W180, W40000, <<"x">>}

IntWire == {W12, Wm3, Wabc, <<>>, W32767, W32768}

StringWire == {WVG, W12}

WireOf(k) ==
    IF k = "$" THEN OffsetWire
    ELSE IF k = "T" THEN IntWire
    ELSE IF k = "V" THEN StringWire
    ELSE {<<"1">>}

RepsOver(K) ==
    {r \in [K -> OffsetWire \cup IntWire \cup StringWire \cup {<<"1">>}] :
        \A k \in K : r[k] \in WireOf(k)}

Reps == UNION {RepsOver(K) : K \in SUBSET WireKeys}

Descriptor(k) == [Name |-> k, Units |-> "u", Description |-> "d"]

DefinitionsOver(K) == [k \in K |-> Descriptor(k)]

GoodDate == Date20240229

OtherDate == Date20240301

BadDate == Date20230229

GoodRep == [k \in {"$", "T", "V"} |->
               IF k = "$" THEN Day ELSE IF k = "T" THEN W12 ELSE WVG]

LateRep == [k \in {"$", "T"} |-> IF k = "$" THEN W180 ELSE Wm3]

BadIntRep == [k \in {"$", "T"} |-> IF k = "$" THEN Night ELSE Wabc]

NoOffsetRep == [k \in {"T"} |-> W12]

SmallReps == {LateRep, BadIntRep}

WirePeriod(date, reps) == [Type |-> "Day", Value |-> date, Rep |-> reps]

SmallPeriods ==
    {WirePeriod(d, rs) : d \in {OtherDate, BadDate},
                         rs \in SeqsUpTo(SmallReps, MaxReps)}

IdWire == {W31, <<"x">>}

LatitudeWire == {W50p7, <<"x">>}

LongitudeWire == {Wm3p5, <<>>}

ElevationWire == {<<>>, W12p5, Wabc}

WireLocation(id, lat, lon, elev, periods) ==
    [Id |-> id, Latitude |-> lat, Longitude |-> lon, Name |-> "Exeter",
     Country |-> "ENGLAND", Continent |-> "EUROPE", Elevation |-> elev,
     Period |-> periods]

\* Records in full variety, in one period of a well-formed location.
RichLocations ==
    {WireLocation(W31, W50p7, Wm3p5, <<>>, <<WirePeriod(GoodDate, <<r>>)>>) :
        r \in Reps}

\* Location fields in full variety, around at most one period.
FieldLocations ==
    {WireLocation(id, lat, lon, elev, ps) :
        id \in IdWire \cup {<<>>}, lat \in LatitudeWire, lon \in LongitudeWire,
        elev \in ElevationWire,
        ps \in {<<>>, <<WirePeriod(GoodDate, <<GoodRep>>)>>,
                <<WirePeriod(GoodDate, <<NoOffsetRep>>)>>}}

\* Sequences of periods and records, in a well-formed location.
DeepLocations ==
    {WireLocation(W31, W50p7, Wm3p5, W12p5, ps) :
        ps \in SeqsUpTo(SmallPeriods, MaxPeriods)}

DataDateWire == {Stamp0900Z, Stamp0900Plus1, GoodDate, <<>>}

ParamEntries ==
    {[Name |-> k, Units |-> "u", Description |-> "d"] : k \in {"T", "V"}}
    \cup {[Name |-> "V", Units |-> "m", Description |-> "d"]}

ParamTables == SeqsUpTo(ParamEntries, MaxParams)

NetOutcomes ==
    {"ok", "failed to generate url", "failed to query", "failed to read body"}

\* What a facade receives: a transport failure, an undecodable body, or a
\* decoded body.
Responses(bodies) ==
    {[net |-> n, decodes |-> FALSE, body |-> <<>>] : n \in NetOutcomes}
    \cup {[net |-> "ok", decodes |-> TRUE, body |-> b] : b \in bodies}

ForecastBodies ==
    {[DataDate |-> t, Type |-> "Forecast", Param |-> ps, Location |-> l] :
        t \in DataDateWire, ps \in ParamTables, l \in FieldLocations}

AllLocations ==
    {WireLocation(W31, W50p7, Wm3p5, <<>>, <<WirePeriod(GoodDate, <<GoodRep>>)>>),
     WireLocation(<<"7">>, W50p7, Wm3p5, W12p5, <<>>),
     WireLocation(W31, <<"x">>, Wm3p5, <<>>, <<>>),
     WireLocation(W31, W50p7, Wm3p5, <<>>, <<WirePeriod(OtherDate, <<BadIntRep>>)>>),
     WireLocation(<<"7">>, W50p7, Wm3p5, Wabc, <<>>)}

AllForecastBodies ==
    {[DataDate |-> t, Type |-> "Forecast", Param |-> ps, Location |-> ls] :
        t \in DataDateWire, ps \in ParamTables,
        ls \in SeqsUpTo(AllLocations, MaxLocations)}

WireSites ==
    {[Id |-> id, Latitude |-> lat, Longitude |-> lon, Name |-> "Exeter",
      Elevation |-> elev, Region |-> "sw", UnitaryAuthArea |-> "Devon"] :
        id \in IdWire, lat \in LatitudeWire, lon \in LongitudeWire,
        elev \in ElevationWire}

SiteBodies == {[Location |-> ss] : ss \in SeqsUpTo(WireSites, MaxSites)}

\* The instant the reference layout itself names, as a timestamp.
StampReference ==
    <<"2", "0", "0", "6", "-", "0", "1", "-", "0", "2", "T",
      "1", "5", ":", "0", "4", ":", "0", "5", "Z">>

IssuedAtWire == {Stamp0900Z, Stamp0900Plus1, StampReference, GoodDate, <<>>}

ExtremeDateWire == {SubSeq(GoodDate, 1, 10), SubSeq(BadDate, 1, 10), GoodDate}

CapabilitiesBodies ==
    {[ExtremeDate |-> d, IssuedAt |-> t] : d \in ExtremeDateWire, t \in IssuedAtWire}

RegionalCapabilitiesBodies == {[IssuedAt |-> t] : t \in IssuedAtWire}

WireExtreme(id, value) ==
    [LocationId |-> id, LocationName |-> "Exeter", Type |-> "HMAXT",
     Uom |-> "degC", Value |-> value]

WireExtremes ==
    {WireExtreme(W31, W12p5), WireExtreme(<<"x">>, W12p5), WireExtreme(W31, Wabc)}

WireRegion(extremes) == [Id |-> "sw", Name |-> "South West", Extreme |-> extremes]

SmallRegions ==
    {WireRegion(<<>>), WireRegion(<<WireExtreme(W31, W12p5)>>),
     WireRegion(<<WireExtreme(W31, Wabc)>>)}

\* One region in full variety, and sequences of a few regions.
RegionLists ==
    {<<WireRegion(es)>> : es \in SeqsUpTo(WireExtremes, MaxExtremes)}
    \cup SeqsUpTo(SmallRegions, MaxRegions)

LatestBodies ==
    {[ExtremeDate |-> d, IssuedAt |-> t, Region |-> rs] :
        d \in {SubSeq(GoodDate, 1, 10), GoodDate},
        t \in {Stamp0900Z, <<>>}, rs \in RegionLists}

RegionalSites == {[Id |-> id, Name |-> "sw"] : id \in {W31, W12, <<"x">>}}

RegionalSiteBodies ==
    {[Location |-> ss] : ss \in SeqsUpTo(RegionalSites, MaxSites)}

TimeStepBodies ==
    {[DataDate |-> t, Resolution |-> res, Type |-> "wxfcs", TS |-> ts] :
        t \in DataDateWire, res \in {"3hourly", "daily"},
        ts \in SeqsUpTo({Stamp0900Z, Stamp0900Plus1, GoodDate}, MaxSteps)}

(***************************************************************************)
(* The client (txt.go, lines 292-423): its options, NewClient, and fetch   *)
(* step by step.  Option values, suppliers and HTTP clients are non-nil.   *)
(***************************************************************************)
DefaultBaseUrl == "http://datapoint.metoffice.gov.uk/public/data/"

\* A base URL url.JoinPath cannot parse.
BadBaseUrl == "http://[::1"

NilSupplier == [kind |-> "nil", value |-> ""]

WithBaseURI(uri) == [opt |-> "WithBaseURI", arg |-> uri]

WithApiKey(key) == [opt |-> "WithApiKey", arg |-> key]

WithApiSupplier(supplier) == [opt |-> "WithApiSupplier", arg |-> supplier]

WithHttpClient(client) == [opt |-> "WithHttpClient", arg |-> client]

\* WithApiSupplier leaving the client's supplier as it was.
applyKeyOnly(client, o) ==
    CASE o.opt = "WithBaseURI" -> [client EXCEPT !.baseUrl = o.arg]
      [] o.opt = "WithApiKey" ->
            [client EXCEPT !.apiKeySupplier = [kind |-> "string", value |-> o.arg]]
      [] o.opt = "WithApiSupplier" -> client
      [] o.opt = "WithHttpClient" -> [client EXCEPT !.httpClient = o.arg]

\* Lines 314-316, 336-339, 350-352 and 363-365.
apply(client, o) ==
    CASE o.opt = "WithBaseURI" -> [client EXCEPT !.baseUrl = o.arg]
      [] o.opt = "WithApiKey" ->
            [client EXCEPT !.apiKeySupplier = [kind |-> "string", value |-> o.arg]]
      [] o.opt = "WithApiSupplier" ->
            [client EXCEPT !.apiKeySupplier = [kind |-> "supplier", value |-> o.arg]]
      [] o.opt = "WithHttpClient" -> [client EXCEPT !.httpClient = o.arg]

RECURSIVE RangeOpt(_, _)
RangeOpt(client, opt) ==
    IF opt = <<>> THEN client
    ELSE RangeOpt(apply(client, opt[1]), SubSeq(opt, 2, Len(opt)))

NewClient(opt) ==
    LET client == RangeOpt([apiKeySupplier |-> NilSupplier,
                            baseUrl |-> DefaultBaseUrl,
                            httpClient |-> "default"], opt)
    IN  IF client.apiKeySupplier = NilSupplier
        THEN Fail(Err("no api key provided", ""))
        ELSE Ok(client)

\* The keys the caller's own supplier hands out over time.
Keys == {"k1", "k2"}

Options ==
    {WithBaseURI(BadBaseUrl), WithApiKey("k0"), WithApiSupplier("vault"),
     WithHttpClient("custom")}

\* The facades called on the client, with the suffix and the parameters
\* each hands to fetch.
Facades == {"ForecastSiteList", "ForecastTimeStepCapabilities"}

Suffix(f) ==
    IF f = "ForecastSiteList" THEN "val/wxfcs/all/json/sitelist"
    ELSE "val/wxfcs/all/json/capabilities"

Params(f) ==
    IF f = "ForecastSiteList" THEN EmptyMap
    ELSE [k \in {"res"} |-> "daily"]

Facade(f, r) ==
    IF f = "ForecastSiteList" THEN siteList(r)
    ELSE ForecastTimeStepCapabilities(r)

\* What a server may answer: any status, with a body that decodes or not.
Statuses == {200, 500}

GoodBody(f) ==
    IF f = "ForecastSiteList"
    THEN [Location |-> <<[Id |-> W31, Latitude |-> W50p7, Longitude |-> Wm3p5,
                          Name |-> "Exeter", Elevation |-> W12p5, Region |-> "sw",
                          UnitaryAuthArea |-> "Devon"]>>]
    ELSE [DataDate |-> Stamp0900Z, Resolution |-> "daily", Type |-> "wxfcs",
          TS |-> <<>>]

Contents(f) ==
    {[decodes |-> FALSE, body |-> <<>>], [decodes |-> TRUE, body |-> GoodBody(f)]}

Callers == {"a", "b"}

\* The indices the exposure predicates are asked about.
UvValues == ((-MaxUv)..MaxUv) \cup {-2147483647, 2147483647}

Idle ==
    [pc |-> "idle", facade |-> "", target |-> "", got |-> <<>>, sent |-> <<>>,
     resp |-> <<>>, open |-> 0, closes |-> 0, readable |-> FALSE, read |-> FALSE,
     out |-> "",
     ret |-> NoData]

(***************************************************************************)
(* The state machine: one call per behaviour.  op is the operation called, *)
(* req what it is given (drawn by Init), ret what it returned, and pc      *)
(* tells whether it has returned.                                          *)
(***************************************************************************)
ConvertArgs(defs, entry) ==
    [paramDefinitions |-> defs, typeName |-> "Forecast", startTime |-> 0,
     entry |-> entry]

\* Records in full variety under any descriptor table, and sequences of
\* periods and records under the usual table.
ConvertRequests ==
    {ConvertArgs(DefinitionsOver(K), e) : K \in SUBSET WireKeys, e \in RichLocations}
    \cup {ConvertArgs(DefinitionsOver({"T", "V"}), e) : e \in DeepLocations}

\* No call on a client is under way.
NoCalls ==
    /\ calls = [c \in Callers |-> Idle]
    /\ started = 0

Init ==
    /\ pc = "call"
    /\ ret = NoData
    /\ NoCalls
    /\ source = "k1"
    /\ \/ op = "convertLocation" /\ req \in ConvertRequests
       \/ op = "FiveDayForecast" /\ req \in Responses(ForecastBodies)
       \/ op = "FiveDayForecastForAllLocations"
          /\ req \in Responses(AllForecastBodies)
       \/ op = "siteList" /\ req \in Responses(SiteBodies)
       \/ op = "ForecastTimeStepCapabilities" /\ req \in Responses(TimeStepBodies)
       \/ op = "UkExtremesCapabilities" /\ req \in Responses(CapabilitiesBodies)
       \/ op = "UkExtremesLatest" /\ req \in Responses(LatestBodies)
       \/ op = "RegionalForecastSiteList" /\ req \in Responses(RegionalSiteBodies)
       \/ op = "RegionalForecastCapabilities"
          /\ req \in Responses(RegionalCapabilitiesBodies)
       \/ op = "UvIndex" /\ req \in UvValues

Return(r) ==
    /\ pc = "call"
    /\ pc' = "done"
    /\ ret' = r
    /\ UNCHANGED <<op, req, calls, source, started>>

CallConvertLocation ==
    /\ op = "convertLocation"
    /\ \E ord \in KeyOrders :
           Return(convertLocation(req.paramDefinitions, req.typeName,
                                  req.startTime, req.entry, ord))

CallFiveDayForecast ==
    /\ op = "FiveDayForecast"
    /\ \E ord \in KeyOrders : Return(FiveDayForecast(req, ord))

CallFiveDayForecastForAllLocations ==
    /\ op = "FiveDayForecastForAllLocations"
    /\ \E ord \in KeyOrders : Return(FiveDayForecastForAllLocations(req, ord))

CallSiteList ==
    /\ op = "siteList"
    /\ Return(siteList(req))

CallForecastTimeStepCapabilities ==
    /\ op = "ForecastTimeStepCapabilities"
    /\ Return(ForecastTimeStepCapabilities(req))

CallUkExtremesCapabilities ==
    /\ op = "UkExtremesCapabilities"
    /\ Return(UkExtremesCapabilities(req))

CallUkExtremesLatest ==
    /\ op = "UkExtremesLatest"
    /\ Return(UkExtremesLatest(req))

CallRegionalForecastSiteList ==
    /\ op = "RegionalForecastSiteList"
    /\ Return(RegionalForecastSiteList(req))

CallRegionalForecastCapabilities ==
    /\ op = "RegionalForecastCapabilities"
    /\ Return(RegionalForecastCapabilities(req))

CallUvIndex ==
    /\ op = "UvIndex"
    /\ Return(Ok(Exposure(req)))

Next ==
    \/ CallConvertLocation
    \/ CallFiveDayForecast
    \/ CallFiveDayForecastForAllLocations
    \/ CallSiteList
    \/ CallForecastTimeStepCapabilities
    \/ CallUkExtremesCapabilities
    \/ CallUkExtremesLatest
    \/ CallRegionalForecastSiteList
    \/ CallRegionalForecastCapabilities
    \/ CallUvIndex

Spec == Init /\ [][Next]_vars

(***************************************************************************)
(* Calls on one client.  NewClient is given req and returns ret; calls[c]  *)
(* is where caller c stands in fetch (txt.go, lines 392-423) and in the    *)
(* facade around it, source is the key the caller's supplier would answer  *)
(* with now, and started counts the calls begun.                           *)
(***************************************************************************)
ClientInit ==
    /\ pc = "call"
    /\ ret = NoData
    /\ op = "NewClient"
    /\ req \in SeqsUpTo(Options, MaxOpts)
    /\ NoCalls
    /\ source = "k1"

CallNewClient ==
    /\ op = "NewClient"
    /\ Return(NewClient(req))

Built == op = "NewClient" /\ pc = "done" /\ ret.err = NoErr

\* url.JoinPath(d.baseUrl, suffix): the base ends with a slash.
JoinPath(baseUrl, suffix) ==
    IF baseUrl = BadBaseUrl THEN [ok |-> FALSE, val |-> "???"]
    ELSE [ok |-> TRUE, val |-> baseUrl \o suffix]

Step(c, call) ==
    /\ calls' = [calls EXCEPT ![c] = call]
    /\ UNCHANGED <<op, req, ret, pc, source>>

\* What the facade makes of what fetch returned.
Fetched(call) ==
    IF call.out = "ok"
    THEN [net |-> "ok", decodes |-> call.resp[1].content.decodes,
          body |-> call.resp[1].content.body]
    ELSE [net |-> call.out, decodes |-> FALSE, body |-> <<>>]

\* fetch returns out (and the body, if it was read) and the facade returns
\* what it makes of them.
Returns(call, out) ==
    LET fetched == [call EXCEPT !.out = out, !.pc = "returned"]
    IN  [fetched EXCEPT !.ret = Facade(call.facade, Fetched(fetched))]

\* Lines 393-398 without the call of Get: the key is the supplier's name.
EnterStatic(d, f, current) ==
    LET target == JoinPath(d.baseUrl, Suffix(f))
        call   == [Idle EXCEPT !.facade = f, !.target = target.val]
    IN  IF ~target.ok THEN Returns(call, "failed to generate url")
        ELSE [call EXCEPT !.got = <<d.apiKeySupplier.value>>, !.pc = "get"]

\* Lines 393-398 with the facade's entry: url.JoinPath, then one call of
\* (*d.apiKeySupplier).Get(), which answers with the string given to
\* WithApiKey or with what the caller's supplier holds at this moment.
Enter(d, f, current) ==
    LET target == JoinPath(d.baseUrl, Suffix(f))
        call   == [Idle EXCEPT !.facade = f, !.target = target.val]
        key    == IF d.apiKeySupplier.kind = "string" THEN d.apiKeySupplier.value
                  ELSE current
    IN  IF ~target.ok THEN Returns(call, "failed to generate url")
        ELSE [call EXCEPT !.got = Append(@, key), !.pc = "get"]

\* A facade's entry that writes the target into the client.
BeginRebasing(c, f) ==
    /\ Built
    /\ calls[c].pc \in {"idle", "returned"}
    /\ started < MaxCalls
    /\ started' = started + 1
    /\ calls' = [calls EXCEPT ![c] = Enter(ret.val[1], f, source)]
    /\ ret' = [ret EXCEPT !.val[1].baseUrl = calls'[c].target]
    /\ UNCHANGED <<op, req, pc, source>>

Begin(c, f) ==
    /\ Built
    /\ calls[c].pc \in {"idle", "returned"}
    /\ started < MaxCalls
    /\ started' = started + 1
    /\ Step(c, Enter(ret.val[1], f, source))

Request(d, call) ==
    [via |-> d.httpClient, url |-> call.target, key |-> call.got[Len(call.got)],
     params |-> Params(call.facade)]

\* A failed GET sending the call back to try again.
QueryFailedRetry(call) == [call EXCEPT !.pc = "get"]

\* Lines 406-408.
QueryFailed(call) == Returns(call, "failed to query")

\* Line 405: the GET fails, or a response arrives with its body open.
HttpGet(c) ==
    LET asked == [calls[c] EXCEPT !.sent = Append(@, Request(ret.val[1], calls[c]))]
    IN  /\ calls[c].pc = "get"
        /\ UNCHANGED started
        /\ \/ Step(c, QueryFailed(asked))
           \/ \E status \in Statuses, content \in Contents(calls[c].facade) :
                  Step(c, [asked EXCEPT
                              !.resp = <<[status |-> status, content |-> content]>>,
                              !.open = 1, !.pc = "read"])

\* io.ReadAll succeeding only on a 200.
ReadAllOnOk(resp, ok) == ok /\ resp.status = 200

\* Line 417: whether the body is read does not depend on the response.
ReadAll(resp, ok) == ok

\* The deferred close run only when the body was read.
CloseBodyWhenRead(call) ==
    IF call.read THEN [call EXCEPT !.open = @ - 1, !.closes = @ + 1] ELSE call

\* Lines 410-415, run as fetch returns.
CloseBody(call) == [call EXCEPT !.open = @ - 1, !.closes = @ + 1]

\* Lines 417-422 and the deferred close; the body can be read to its end
\* or not.
ReadBody(c) ==
    /\ calls[c].pc = "read"
    /\ UNCHANGED started
    /\ \E ok \in BOOLEAN :
           LET read == [calls[c] EXCEPT !.readable = ok,
                                       !.read = ReadAll(calls[c].resp[1], ok)]
           IN  Step(c, Returns(CloseBody(read),
                               IF read.read THEN "ok" ELSE "failed to read body"))

\* The caller's supplier comes to hold another key.
Rotate ==
    /\ Built
    /\ ret.val[1].apiKeySupplier.kind = "supplier"
    /\ source' \in Keys \ {source}
    /\ UNCHANGED <<op, req, ret, pc, calls, started>>

ClientNext ==
    \/ CallNewClient
    \/ \E c \in Callers, f \in Facades : Begin(c, f)
    \/ \E c \in Callers : HttpGet(c)
    \/ \E c \in Callers : ReadBody(c)
    \/ Rotate

ClientSpec == ClientInit /\ [][ClientNext]_vars

(***************************************************************************)
(* Properties of convertLocation.  In a state where convertLocation has    *)
(* returned a value, WireRep(i, j) is the j-th record of the i-th period   *)
(* it was given and Converted(i, j) the Forecast made of it.               *)
(***************************************************************************)
Returned(o) == pc = "done" /\ op = o

ConvertSucceeded == Returned("convertLocation") /\ ret.err = NoErr /\ ret.val # <<>>

WireRep(i, j) == req.entry.Period[i].Rep[j]

Converted(i, j) == ret.val[1].Location.Period[i].Forecasts[j]

\* P(rep, forecast) holds of every record given and the Forecast made of it.
EveryRecord(P(_, _)) ==
    /\ Len(ret.val[1].Location.Period) = Len(req.entry.Period)
    /\ \A i \in DOMAIN req.entry.Period :
          /\ Len(ret.val[1].Location.Period[i].Forecasts) = Len(req.entry.Period[i].Rep)
          /\ \A j \in DOMAIN req.entry.Period[i].Rep : P(WireRep(i, j), Converted(i, j))

SomeRecord(P(_, _)) ==
    \E i \in DOMAIN req.entry.Period :
        \E j \in DOMAIN req.entry.Period[i].Rep : P(WireRep(i, j), Converted(i, j))

InAllowList(k) == Contains(knownIntParams, k)

\* The integer that a text spells, whatever its size.
Spelt(s) == ParseInt(s, 64)

StoredAsInt(rep, forecast, k) ==
    /\ k \in DOMAIN forecast.IntParams
    /\ forecast.IntParams[k].Value = Spelt(rep[k]).val
    /\ k \notin DOMAIN forecast.StringParams

\* C1 as stated: after a successful conversion every key of a record that is
\* in knownIntParams and has a descriptor is in IntParams with the parsed
\* integer as its Value, and is not in StringParams.
C1_EveryListedKeyIsInt ==
    ConvertSucceeded =>
        EveryRecord(LAMBDA rep, forecast :
            \A k \in DOMAIN rep :
                InAllowList(k) /\ k \in DOMAIN req.paramDefinitions
                    => StoredAsInt(rep, forecast, k))

\* C1 amended: the same of every key other than `$`, which is in
\* knownIntParams but is the offset marker and is never stored.
C1_ListedParamIsInt ==
    ConvertSucceeded =>
        EveryRecord(LAMBDA rep, forecast :
            \A k \in DOMAIN rep \ {"$"} :
                InAllowList(k) /\ k \in DOMAIN req.paramDefinitions
                    => StoredAsInt(rep, forecast, k))

C1_Witness ==
    /\ ConvertSucceeded
    /\ SomeRecord(LAMBDA rep, forecast :
           /\ "T" \in DOMAIN rep /\ rep["T"] = Wm3
           /\ "T" \in DOMAIN forecast.IntParams
           /\ forecast.IntParams["T"].Value = -3)

\* C2: after a successful conversion every key other than `$` that is not in
\* knownIntParams (the declared codes V and D are not) is in StringParams
\* with the wire string unchanged as its Value, also when it is numeric text.
C2_UnlistedKeyIsString ==
    /\ ~InAllowList("V") /\ ~InAllowList("D")
    /\ ConvertSucceeded =>
           EveryRecord(LAMBDA rep, forecast :
               \A k \in DOMAIN rep \ {"$"} :
                   ~InAllowList(k) =>
                       /\ k \in DOMAIN forecast.StringParams
                       /\ forecast.StringParams[k].Value = rep[k]
                       /\ k \notin DOMAIN forecast.IntParams)

C2_Witness ==
    /\ ConvertSucceeded
    /\ SomeRecord(LAMBDA rep, forecast :
           /\ "V" \in DOMAIN rep /\ rep["V"] = W12 /\ Spelt(rep["V"]).ok
           /\ "X" \in DOMAIN rep
           /\ forecast.StringParams["V"].Value = W12)

\* C3: in every Forecast of a successful conversion the keys of IntParams and
\* of StringParams are disjoint and together are the keys of the wire record
\* other than `$`; `$` is in neither, although knownIntParams lists it.
C3_KeysPartitioned ==
    /\ InAllowList("$")
    /\ ConvertSucceeded =>
           EveryRecord(LAMBDA rep, forecast :
               /\ DOMAIN forecast.IntParams \cap DOMAIN forecast.StringParams = {}
               /\ DOMAIN forecast.IntParams \cup DOMAIN forecast.StringParams
                      = DOMAIN rep \ {"$"})

C3_Witness ==
    /\ ConvertSucceeded
    /\ "$" \in DOMAIN req.paramDefinitions
    /\ SomeRecord(LAMBDA rep, forecast :
           /\ DOMAIN rep = WireKeys
           /\ DOMAIN forecast.IntParams = {"T"}
           /\ DOMAIN forecast.StringParams = {"V", "X"})

\* The instant that the date of the i-th period given stands for.
PeriodDate(i) == ParsePeriodDate(req.entry.Period[i].Value).val

InInt16(s) == Spelt(s).ok /\ Spelt(s).val >= -32768 /\ Spelt(s).val <= 32767

\* The time a Forecast is to have, by the token under `$` (an integer token
\* counts minutes).
TimeAsClaimed(token, date) ==
    IF token = Day THEN date
    ELSE IF token = Night THEN date + 86399
    ELSE date + 60 * Spelt(token).val

TimesAsClaimed ==
    \A i \in DOMAIN req.entry.Period :
        /\ ret.val[1].Location.Period[i].Time = PeriodDate(i)
        /\ \A j \in DOMAIN req.entry.Period[i].Rep :
               Converted(i, j).Time = TimeAsClaimed(WireRep(i, j)["$"], PeriodDate(i))

\* Every record given has a `$` token that Accepts(token) accepts.
EveryToken(Accepts(_)) ==
    \A i \in DOMAIN req.entry.Period :
        \A j \in DOMAIN req.entry.Period[i].Rep :
            "$" \in DOMAIN WireRep(i, j) /\ Accepts(WireRep(i, j)["$"])

SomeToken(Rejected(_)) ==
    \E i \in DOMAIN req.entry.Period :
        \E j \in DOMAIN req.entry.Period[i].Rep :
            "$" \in DOMAIN WireRep(i, j) /\ Rejected(WireRep(i, j)["$"])

OffsetError == Err("failed to parse forecast offset", "")

\* C4 as stated: Day gives the period date, Night the date plus 86399
\* seconds, any other token that is an integer m the date plus m minutes;
\* only a token that is none of these fails the conversion.  Period.Time is
\* the period date.
C4_IntegerTokenIsMinutes ==
    Returned("convertLocation") =>
        /\ ConvertSucceeded => TimesAsClaimed
        /\ SomeToken(LAMBDA t : t \notin {Day, Night} /\ ~Spelt(t).ok)
               => ret.val = <<>> /\ ret.err # NoErr
        /\ EveryToken(LAMBDA t : t \in {Day, Night} \/ Spelt(t).ok)
               => ret.err # OffsetError

\* C4 amended: the integer token must be in the signed 16-bit range; a token
\* that is not Day, Night or such an integer fails the conversion.
C4_Int16TokenIsMinutes ==
    Returned("convertLocation") =>
        /\ ConvertSucceeded => TimesAsClaimed
        /\ SomeToken(LAMBDA t : t \notin {Day, Night} /\ ~InInt16(t))
               => ret.val = <<>> /\ ret.err # NoErr
        /\ EveryToken(LAMBDA t : t \in {Day, Night} \/ InInt16(t))
               => ret.err # OffsetError

C4_Witness ==
    /\ ConvertSucceeded
    /\ Len(req.entry.Period) = 2
    /\ req.entry.Period[1].Value = Date20240301
    /\ ret.val[1].Location.Period[1].Time = 1709251200
    /\ SomeRecord(LAMBDA rep, forecast :
           rep["$"] = W180 /\ forecast.Time = 1709251200 + 10800)

NoDescriptor(k) == Err("could not find descriptor for parameter", k)

\* The key k of the record (i, j) converts: it has a descriptor and, if it
\* is in the allow-list, a value in the 16-bit range.
Converts(i, j, k) ==
    /\ k \in DOMAIN req.paramDefinitions
    /\ InAllowList(k) => InInt16(WireRep(i, j)[k])

\* Nothing in the periods given fails but the key k of the record (i, j).
OnlyFailure(i, j, k) ==
    /\ \A p \in DOMAIN req.entry.Period : ParsePeriodDate(req.entry.Period[p].Value).ok
    /\ EveryToken(LAMBDA t : t \in {Day, Night} \/ InInt16(t))
    /\ \A p \in DOMAIN req.entry.Period :
           \A q \in DOMAIN req.entry.Period[p].Rep :
               \A c \in DOMAIN WireRep(p, q) \ {"$"} :
                   <<p, q, c>> # <<i, j, k>> => Converts(p, q, c)

\* C5 as stated: a key other than `$` without a descriptor fails the
\* conversion with the error that names it, whatever else the record holds.
C5_UnknownCodeNamed ==
    Returned("convertLocation") =>
        \A i \in DOMAIN req.entry.Period :
            \A j \in DOMAIN req.entry.Period[i].Rep :
                \A k \in DOMAIN WireRep(i, j) \ {"$"} :
                    k \notin DOMAIN req.paramDefinitions
                        => ret.val = <<>> /\ ret.err = NoDescriptor(k)

\* C5 amended: such a key always fails the conversion, and no value is
\* returned; the error names it when nothing else in the periods fails.
C5_UnknownCodeFails ==
    Returned("convertLocation") =>
        \A i \in DOMAIN req.entry.Period :
            \A j \in DOMAIN req.entry.Period[i].Rep :
                \A k \in DOMAIN WireRep(i, j) \ {"$"} :
                    k \notin DOMAIN req.paramDefinitions
                        => /\ ret.val = <<>>
                           /\ ret.err # NoErr
                           /\ OnlyFailure(i, j, k) => ret.err = NoDescriptor(k)

C5_Witness ==
    /\ Returned("convertLocation")
    /\ ret.err = NoDescriptor("X")
    /\ "X" \notin DOMAIN req.paramDefinitions
    /\ \E i \in DOMAIN req.entry.Period :
           \E j \in DOMAIN req.entry.Period[i].Rep :
               /\ DOMAIN WireRep(i, j) = WireKeys
               /\ WireRep(i, j)["T"] = Wabc
               /\ "T" \in DOMAIN req.paramDefinitions

KnownIntError(k) == Err("failed to parse known int value", k)

\* C6: a parameter code of the allow-list (a key other than `$`) whose value
\* is not an integer in [-32768, 32767] fails the whole conversion: no value
\* is returned, so the text is not kept in StringParams instead.
C6_BadKnownIntFails ==
    Returned("convertLocation") =>
        \A i \in DOMAIN req.entry.Period :
            \A j \in DOMAIN req.entry.Period[i].Rep :
                \A k \in DOMAIN WireRep(i, j) \ {"$"} :
                    InAllowList(k) /\ ~InInt16(WireRep(i, j)[k])
                        => ret.val = <<>> /\ ret.err # NoErr

C6_Witness ==
    /\ Returned("convertLocation")
    /\ ret = Fail(KnownIntError("T"))
    /\ \E i \in DOMAIN req.entry.Period :
           \E j \in DOMAIN req.entry.Period[i].Rep :
               /\ "T" \in DOMAIN WireRep(i, j)
               /\ WireRep(i, j)["T"] = W32768

(***************************************************************************)
(* Properties of the facades.                                              *)
(***************************************************************************)
\* The call was handed a decoded body.
Decoded(o) == Returned(o) /\ req.net = "ok" /\ req.decodes

\* C7: FiveDayForecast returns (nil, nil) whenever the body decodes and the
\* location id decoded is empty, whatever the data date, the Param table and
\* the periods are.
C7_EmptyIdIsNoData ==
    Decoded("FiveDayForecast") /\ req.body.Location.Id = <<>> => ret = NoData

C7_Witness ==
    /\ Decoded("FiveDayForecast")
    /\ req.body.Location.Id = <<>>
    /\ ~ParseRFC3339(req.body.DataDate).ok
    /\ req.body.Param = <<>>
    /\ req.body.Location.Latitude = <<"x">>
    /\ req.body.Location.Period = <<WirePeriod(GoodDate, <<NoOffsetRep>>)>>
    /\ ret = NoData

\* C8: FiveDayForecastForAllLocations returns on success as many SiteRep
\* values as the response has locations, in their order, the i-th being the
\* conversion of the i-th location with the shared table, type and data date.
C8_AllLocationsInOrder ==
    Returned("FiveDayForecastForAllLocations") /\ ret.err = NoErr =>
        /\ ret.val # <<>>
        /\ Len(ret.val[1]) = Len(req.body.Location)
        /\ \A i \in DOMAIN req.body.Location :
               \A ord \in KeyOrders :
                   Ok(ret.val[1][i]) =
                       convertLocation(ParamDefinitions(req.body.Param),
                                       req.body.Type,
                                       ParseRFC3339(req.body.DataDate).val,
                                       req.body.Location[i], ord)

C8_Witness ==
    /\ Returned("FiveDayForecastForAllLocations")
    /\ ret.err = NoErr
    /\ Len(req.body.Location) = 2
    /\ ret.val[1][1].Location.Id = 31
    /\ Len(ret.val[1][1].Location.Period) = 1
    /\ ret.val[1][2].Location.Id = 7
    /\ ret.val[1][2].DataDate = 1709164800 + 8 * 3600

ElevationError == Err("failed to parse elevation", "")

\* The elevation that the defaulting policy gives a wire elevation.
ElevationDefaulted(wire) ==
    IF wire # <<>> /\ ParseFloat(wire).ok THEN ParseFloat(wire).val ELSE FloatZero

\* C9: in the forecast conversion an empty or unparseable elevation gives
\* elevation 0 and the conversion still succeeds: no elevation error is
\* returned.
C9_ForecastElevationDefaults ==
    Decoded("FiveDayForecast") =>
        /\ ret.err # ElevationError
        /\ ret.val # <<>> =>
               ret.val[1].Location.Elevation
                   = ElevationDefaulted(req.body.Location.Elevation)

SiteParses(site) ==
    ParseFloat(site.Latitude).ok /\ ParseFloat(site.Longitude).ok /\ Spelt(site.Id).ok

\* C10: siteList gives every site elevation 0 for an empty or unparseable
\* wire elevation and the parsed value otherwise, without an error, and
\* converts every site as long as each id, latitude and longitude parses;
\* if one does not, the whole call fails.
C10_SiteElevationDefaults ==
    Decoded("siteList") =>
        IF \A i \in DOMAIN req.body.Location : SiteParses(req.body.Location[i])
        THEN /\ ret.err = NoErr
             /\ ret.val # <<>>
             /\ Len(ret.val[1]) = Len(req.body.Location)
             /\ \A i \in DOMAIN req.body.Location :
                    ret.val[1][i].Elevation
                        = ElevationDefaulted(req.body.Location[i].Elevation)
        ELSE ret.val = <<>> /\ ret.err # NoErr

C10_Witness ==
    /\ Decoded("siteList")
    /\ ret.err = NoErr
    /\ Len(req.body.Location) = 2
    /\ req.body.Location[1].Elevation = Wabc
    /\ ret.val[1][1].Elevation = FloatZero
    /\ req.body.Location[2].Elevation = W12p5
    /\ ret.val[1][2].Elevation = [num |-> 125, exp |-> 1]

(***************************************************************************)
(* Properties of the text facades.                                         *)
(***************************************************************************)
\* A well-formed RFC3339 timestamp with the UTC designator, and its instant.
IsUtcStamp(s) == s # <<>> /\ s[Len(s)] = "Z" /\ ParseRFC3339(s).ok

\* C11: given a decodable body whose issuedAt is a well-formed RFC3339
\* timestamp with the UTC designator, RegionalForecastCapabilities returns no
\* error and IssuedAt equal to the instant the timestamp names.
C11_RegionalIssuedAtParsed ==
    (Decoded("RegionalForecastCapabilities") /\ IsUtcStamp(req.body.IssuedAt)) =>
        ret = Ok([IssuedAt |-> ParseRFC3339(req.body.IssuedAt).val])

\* UkExtremesCapabilities does parse such a timestamp.
UkExtremesIssuedAtParsed ==
    (/\ Decoded("UkExtremesCapabilities")
     /\ IsUtcStamp(req.body.IssuedAt)
     /\ TimeParse(DateOnly, req.body.ExtremeDate).ok) =>
        /\ ret.err = NoErr
        /\ ret.val # <<>>
        /\ ret.val[1].IssuedAt = ParseRFC3339(req.body.IssuedAt).val

\* RegionalForecastCapabilities fails on every timestamp the model draws.
RegionalCapabilitiesAlwaysFails ==
    Decoded("RegionalForecastCapabilities") =>
        ret = Fail(Err("failed to parse issued at time", ""))

\* Whether some parse the public call op makes of the decoded body req.body
\* fails: an entry's field at any index, or one of the envelope's times.
ExtremeParses(e) == Spelt(e.LocationId).ok /\ ParseFloat(e.Value).ok

StampParses(s) == TimeParse(RFC3339, s).ok

LocationConverts(l) ==
    \A ord \in KeyOrders :
        convertLocation(ParamDefinitions(req.body.Param), req.body.Type, 0, l, ord).err
            = NoErr

SomeParseFails ==
    CASE op = "siteList" ->
            \E i \in DOMAIN req.body.Location : ~SiteParses(req.body.Location[i])
      [] op = "RegionalForecastSiteList" ->
            \E i \in DOMAIN req.body.Location : ~Spelt(req.body.Location[i].Id).ok
      [] op = "UkExtremesLatest" ->
            \/ \E i \in DOMAIN req.body.Region :
                   \E j \in DOMAIN req.body.Region[i].Extreme :
                       ~ExtremeParses(req.body.Region[i].Extreme[j])
            \/ ~TimeParse(DateOnly, req.body.ExtremeDate).ok
            \/ ~StampParses(req.body.IssuedAt)
      [] op = "UkExtremesCapabilities" ->
            \/ ~TimeParse(DateOnly, req.body.ExtremeDate).ok
            \/ ~StampParses(req.body.IssuedAt)
      [] op = "ForecastTimeStepCapabilities" ->
            \/ ~StampParses(req.body.DataDate)
            \/ \E i \in DOMAIN req.body.TS : ~StampParses(req.body.TS[i])
      [] op = "FiveDayForecastForAllLocations" ->
            \/ ~StampParses(req.body.DataDate)
            \/ \E i \in DOMAIN req.body.Location :
                   ~LocationConverts(req.body.Location[i])
      [] op = "FiveDayForecast" ->
            /\ req.body.Location.Id # <<>>
            /\ ~StampParses(req.body.DataDate) \/ ~LocationConverts(req.body.Location)
      [] OTHER -> FALSE

PublicCalls ==
    {"siteList", "ForecastTimeStepCapabilities", "FiveDayForecast",
     "FiveDayForecastForAllLocations", "UkExtremesCapabilities", "UkExtremesLatest",
     "RegionalForecastSiteList", "RegionalForecastCapabilities"}

HasCredential(opt) ==
    \E i \in DOMAIN opt : opt[i].opt \in {"WithApiKey", "WithApiSupplier"}

\* C13: NewClient returns the error "no api key provided" and no client
\* exactly when no option given sets a credential, whatever the other
\* options and their order; otherwise it returns a client and no error.
C13_ClientNeedsCredential ==
    Returned("NewClient") =>
        IF HasCredential(req)
        THEN ret.err = NoErr /\ ret.val # <<>>
        ELSE ret = Fail(Err("no api key provided", ""))

C13_Witness ==
    /\ Returned("NewClient")
    /\ req = <<WithBaseURI(BadBaseUrl), WithHttpClient("custom")>>
    /\ ret.val = <<>>
    /\ ret.err.kind = "no api key provided"

\* The key the client's supplier answers with now.
KeyHeld ==
    IF ret.val[1].apiKeySupplier.kind = "string"
    THEN ret.val[1].apiKeySupplier.value
    ELSE source

EntersFetch(c) == calls[c].pc \in {"idle", "returned"} /\ calls'[c].pc = "get"

Asks(c) == calls[c].pc = "get" /\ calls'[c] # calls[c]

\* C14: a call reads the supplier once, when it builds its request, and
\* gets what the supplier holds at that moment; the request it sends carries
\* the key that read returned, and no call sends more requests than it made
\* reads.
C14_KeyReadPerRequest ==
    [][\A c \in Callers :
          /\ EntersFetch(c) => calls'[c].got = <<KeyHeld>>
          /\ Asks(c) => /\ calls'[c].got = calls[c].got
                        /\ Len(calls'[c].sent) = Len(calls'[c].got)
                        /\ calls'[c].sent[1].key = calls[c].got[1]]_vars

\* Two requests of one client carry different keys: each the key of its call.
C14_Witness ==
    /\ Built
    /\ calls["a"].pc = "returned"
    /\ calls["b"].pc = "returned"
    /\ Len(calls["a"].sent) = 1
    /\ Len(calls["b"].sent) = 1
    /\ calls["a"].sent[1].key = "k1"
    /\ calls["b"].sent[1].key = "k2"

FetchReturned(c) == Built /\ calls[c].pc = "returned"

\* C15: whenever the GET produced a response, its body is closed exactly
\* once by the time fetch has returned, whether the body was read or the
\* read failed; fetch never has returned with a body still open, and closes
\* nothing when there was no response.
C15_BodyClosedOnce ==
    \A c \in Callers :
        /\ calls[c].pc = "read" => calls[c].open = 1 /\ calls[c].closes = 0
        /\ FetchReturned(c) =>
               /\ calls[c].open = 0
               /\ calls[c].closes = Len(calls[c].resp)

C15_Witness ==
    \E c \in Callers :
        /\ FetchReturned(c)
        /\ calls[c].resp # <<>>
        /\ calls[c].out = "failed to read body"
        /\ calls[c].open = 0
        /\ calls[c].closes = 1

\* C16: a facade call issues no GET when the URL cannot be built and exactly
\* one otherwise, never a second one; it holds no response before its own
\* GET; a failure of the URL, of the GET or of the read is what the call
\* returns, with no value.
C16_OneGetPerCall ==
    \A c \in Callers :
        /\ Len(calls[c].sent) <= 1
        /\ calls[c].pc = "get" => calls[c].resp = <<>>
        /\ FetchReturned(c) =>
               /\ Len(calls[c].sent)
                      = IF JoinPath(ret.val[1].baseUrl, Suffix(calls[c].facade)).ok
                        THEN 1 ELSE 0
               /\ calls[c].out # "ok" => calls[c].ret = Fail(Err(calls[c].out, ""))

C16_Witness ==
    \E c \in Callers :
        /\ FetchReturned(c)
        /\ calls[c].out = "failed to query"
        /\ Len(calls[c].sent) = 1
        /\ calls[c].ret = Fail(Err("failed to query", ""))

\* C17: whatever the status of the response, if the GET produced a response
\* and its body can be read, fetch returns the body with no error, and the
\* facade decodes that body.
C17_StatusNotInspected ==
    \A c \in Callers :
        (FetchReturned(c) /\ calls[c].resp # <<>> /\ calls[c].readable) =>
            /\ calls[c].out = "ok"
            /\ calls[c].ret
                   = Facade(calls[c].facade,
                            [net |-> "ok",
                             decodes |-> calls[c].resp[1].content.decodes,
                             body |-> calls[c].resp[1].content.body])

C17_Witness ==
    \E c \in Callers :
        /\ FetchReturned(c)
        /\ calls[c].resp # <<>>
        /\ calls[c].resp[1].status = 500
        /\ calls[c].readable
        /\ calls[c].out = "ok"
        /\ calls[c].ret.err = NoErr
        /\ calls[c].ret.val # <<>>

\* C18: once NewClient has returned a client, no call changes it: under
\* any interleaving of the callers' steps the client is what the options
\* made it, every request goes to the client's base URL through the
\* client's HTTP client with the key its own call read, and every result is
\* what the facade makes of its own call's response.
C18_ClientNotWritten ==
    Built =>
        /\ ret = NewClient(req)
        /\ \A c \in Callers :
               /\ \A i \in DOMAIN calls[c].sent :
                      calls[c].sent[i]
                          = [via |-> NewClient(req).val[1].httpClient,
                             url |-> JoinPath(NewClient(req).val[1].baseUrl,
                                              Suffix(calls[c].facade)).val,
                             key |-> calls[c].got[i],
                             params |-> Params(calls[c].facade)]
               /\ calls[c].pc = "returned" =>
                      calls[c].ret = Facade(calls[c].facade, Fetched(calls[c]))

\* One caller has its result while the other's call is still under way.
C18_Witness ==
    /\ Built
    /\ calls["a"].pc = "returned"
    /\ calls["a"].ret.err = NoErr
    /\ calls["b"].pc = "read"
    /\ calls["a"].facade # calls["b"].facade

(***************************************************************************)
(* Properties of UvIndex.                                                  *)
(***************************************************************************)
Bands(e) ==
    {b \in {"Low", "Moderate", "High", "VeryHigh", "Extreme"} : e[b]}

BandOf(i) ==
    IF i <= 0 THEN {}
    ELSE IF i <= 2 THEN {"Low"}
    ELSE IF i <= 5 THEN {"Moderate"}
    ELSE IF i <= 7 THEN {"High"}
    ELSE IF i <= 10 THEN {"VeryHigh"}
    ELSE {"Extreme"}

\* C19: for every integer index at most one of the five exposure predicates
\* is true: exactly one for an index of 1 or more (1-2 low, 3-5 moderate,
\* 6-7 high, 8-10 very high, 11 and above extreme) and none for 0 or less.
C19_ExposureBandsDisjoint ==
    Returned("UvIndex") =>
        /\ Cardinality(Bands(ret.val[1])) <= 1
        /\ Cardinality(Bands(ret.val[1])) = 1 <=> req >= 1
        /\ Bands(ret.val[1]) = BandOf(req)

C19_Witness ==
    /\ Returned("UvIndex")
    /\ req = 8
    /\ Bands(ret.val[1]) = {"VeryHigh"}

====
